---- MODULE Spec2Model ----
(***************************************************************************)
(* Model of the Slack adapter: the transport client SlackAPIClient         *)
(* (project/slack_mcp/slack_api.py) and the tool procedures built on it    *)
(* (project/slack_mcp/slack_mcp_server.py).                                *)
(*                                                                         *)
(* A tool procedure is an `async def` with no await in its body, so one    *)
(* invocation runs from entry to return without interleaving: each tool is *)
(* one action.  The remote service and the file system are the inputs of   *)
(* an invocation, chosen by the action: a response for every outbound      *)
(* request, in the order the requests are issued.                          *)
(*                                                                         *)
(* Python strings that are formatted or searched are sequences of tokens   *)
(* (f-string pieces); `x in s` is token membership.  The Korean literals   *)
(* of the source are written as English glosses.  A Python call evaluates  *)
(* to a record [exc, error, value]: exc = "none" for a normal return, the  *)
(* exception class otherwise, error the exception's message.               *)
(***************************************************************************)
EXTENDS Integers, Sequences, FiniteSets, TLC

VARIABLES
    token,      \* SlackAPIClient.token
    headers,    \* SlackAPIClient.headers
    jsonLib,    \* which exception response.json() raises in this build
    tool,       \* the procedure invoked last ("none" before the first)
    args,       \* its arguments
    ops,        \* the client operations it called, in order
    requests,   \* the outbound HTTP requests it caused, in order
    result,     \* what the first client operation gave back
    outcome,    \* how it ended: [kind |-> "returned" | "raised", text]
    view,       \* the message list it handed to format_message_list
    slack_token,  \* os.getenv("SLACK_BOT_TOKEN") of the server process
    pc,           \* where the server process is: "import", "run_server",
                  \* "serving" (inside mcp.run) or "exited"
    exit_status,  \* the exit status of the process once it has exited
    served,     \* the procedures invoked since the record was last cleared
    wire,       \* the requests the remote side received since then
    last        \* the invocation before the present one

vars == <<token, headers, jsonLib, tool, args, ops, requests, result, outcome, view,
          slack_token, pc, exit_status, served, wire, last>>

----------------------------------------------------------------------------
(* Bounds of the model *)

MaxMsgs == 3        \* messages in one conversations.history / replies answer
MaxChans == 2       \* channel identifiers in one upload_slack_file argument
FracDigits == 2     \* decimal places kept when a timestamp is parsed
MaxCalls == 2       \* invocations followed in a row by the server process

(* Program constants *)

HistoryCap == 100
UsersCap == 1000
SearchCap == 100
ChannelsLimit == 1000
ExitFailure == 1          \* sys.exit(1)
UploadOkStatus == 200
HttpErrorLow == 400
HttpErrorHigh == 599

----------------------------------------------------------------------------
(* Python values and exceptions *)

None == "None"

Min(a, b) == IF a < b THEN a ELSE b
Max(a, b) == IF a > b THEN a ELSE b

\* response is SlackAPIError.response, None unless the service sent a payload
Return(v) == [exc |-> "none", error |-> <<>>, value |-> v, response |-> None]
Raise(e, msg) == [exc |-> e, error |-> msg, value |-> None, response |-> None]

\* F of the value of x: x is evaluated once, however often F uses it
With(x, F(_)) == CHOOSE y \in {F(v) : v \in {x}} : TRUE

\* x in s, for a string s held as a sequence of tokens
Contains(s, x) == \E i \in DOMAIN s : s[i] = x

\* str(e) of a SlackAPIError: super().__init__(f"Slack API Error: {error}")
SlackAPIErrorStr(error) == <<"Slack API Error: ">> \o error

SlackAPIError(error) == Raise("SlackAPIError", error)

\* d.get(key, default) for a string field the answer may leave out
Get(v, default) == IF v = "absent" THEN default ELSE v

----------------------------------------------------------------------------
(* float(): the decimal strings the model uses, spelled out, and their     *)
(* value in units of 10^-FracDigits.  Strings outside the grammar          *)
(* digits[.digits] raise ValueError; the model draws no signed, padded or  *)
(* exponent forms.                                                         *)

Spell(s) ==
    CASE s = "9.5"   -> <<"9", ".", "5">>
      [] s = "10.5"  -> <<"1", "0", ".", "5">>
      [] s = "10.50" -> <<"1", "0", ".", "5", "0">>
      [] s = "1690000000.000100" ->
            <<"1","6","9","0","0","0","0","0","0","0",".","0","0","0","1","0","0">>
      [] s = ""      -> <<>>
      [] OTHER       -> <<"?">>

Digits == {"0", "1", "2", "3", "4", "5", "6", "7", "8", "9"}

DigitVal(c) ==
    CASE c = "0" -> 0 [] c = "1" -> 1 [] c = "2" -> 2 [] c = "3" -> 3
      [] c = "4" -> 4 [] c = "5" -> 5 [] c = "6" -> 6 [] c = "7" -> 7
      [] c = "8" -> 8 [] c = "9" -> 9

RECURSIVE DecimalValue(_)
DecimalValue(ds) ==
    IF ds = <<>> THEN 0
    ELSE 10 * DecimalValue(SubSeq(ds, 1, Len(ds) - 1)) + DigitVal(ds[Len(ds)])

RECURSIVE PadRight(_, _)
PadRight(ds, n) ==
    IF Len(ds) >= n THEN SubSeq(ds, 1, n) ELSE PadRight(ds \o <<"0">>, n)

RECURSIVE Pow10(_)
Pow10(n) == IF n = 0 THEN 1 ELSE 10 * Pow10(n - 1)

\* float(s) returns: s is digits[.digits]; otherwise it raises ValueError
IsFloat(s) ==
    LET c == Spell(s)
        dots == {i \in DOMAIN c : c[i] = "."}
        digs == {i \in DOMAIN c : c[i] \in Digits}
    IN  /\ Cardinality(dots) <= 1
        /\ digs # {}
        /\ dots \cup digs = DOMAIN c

\* float(s), for a string float() accepts
FloatValue(s) ==
    LET c == Spell(s)
        dots == {i \in DOMAIN c : c[i] = "."}
        d == IF dots = {} THEN Len(c) + 1 ELSE CHOOSE i \in dots : TRUE
        whole == SubSeq(c, 1, d - 1)
        frac == SubSeq(c, d + 1, Len(c))
    IN  DecimalValue(whole) * Pow10(FracDigits)
        + DecimalValue(PadRight(frac, FracDigits))

----------------------------------------------------------------------------
(* The remote side: one answer per outbound request *)

\* what requests.get / requests.post met; "ok" is a received HTTP response
NetFailures == {"ConnectionError", "Timeout"}

Resp(net, status, body, ok, error, data) ==
    [net |-> net, status |-> status, body |-> body, ok |-> ok,
     error |-> error, data |-> data]

OkResp(data) == Resp("ok", 200, "json", "true", "absent", data)

\* the failures every endpoint can answer with; tags are the service's
\* error tags of that endpoint
FailResps(tags) ==
       {Resp(n, 0, "none", "absent", "absent", <<>>) : n \in NetFailures}
  \cup {Resp("ok", s, "json", "false", "ratelimited", <<>>) : s \in {429, 500}}
  \cup {Resp("ok", 200, b, "absent", "absent", <<>>) : b \in {"garbage", "list"}}
  \cup {Resp("ok", 200, "json", "false", t, <<>>) : t \in tags \cup {"absent"}}
  \cup {Resp("ok", 200, "json", "absent", "absent", <<>>)}

JsonLibs == {"requests.JSONDecodeError", "json.JSONDecodeError",
             "simplejson.JSONDecodeError"}

\* one outbound request with the answer it meets; op is the client
\* operation the tool called that issued it
Request(method, endpoint, payload, resp) ==
    [op |-> "", method |-> method, host |-> "https://slack.com/api",
     endpoint |-> endpoint, auth |-> headers.Authorization,
     payload |-> payload, answer |-> resp]

\* response.raise_for_status(): HTTPError for a 4xx or 5xx status
HttpStatusRaisesNever(status) == FALSE
HttpStatusRaises(status) == status >= HttpErrorLow /\ status <= HttpErrorHigh

\* raise SlackAPIError(error_msg, result): neither except clause of
\* _make_request matches it
RemoteErrorAsNetwork(resp) ==
    SlackAPIError(<<"Network error: ", Get(resp.error, "Unknown error")>>)
RemoteErrorOf(resp) ==
    [SlackAPIError(<<Get(resp.error, "Unknown error")>>) EXCEPT !.response = resp]

\* SlackAPIClient._make_request, given the answer the request meets.
\* response.json() of an undecodable body raises requests' own
\* JSONDecodeError (a RequestException) in requests >= 2.27, the standard
\* json.JSONDecodeError or simplejson's (a plain ValueError) before that.
MakeRequest(resp) ==
    IF resp.net # "ok"
    THEN SlackAPIError(<<"Network error: ", resp.net>>)
    ELSE IF HttpStatusRaises(resp.status)
    THEN SlackAPIError(<<"Network error: ", "HTTPError", ToString(resp.status)>>)
    ELSE IF resp.body = "garbage"
    THEN CASE jsonLib = "requests.JSONDecodeError" ->
                SlackAPIError(<<"Network error: ", "Expecting value">>)
           [] jsonLib = "json.JSONDecodeError" ->
                SlackAPIError(<<"JSON decode error: ", "Expecting value">>)
           [] OTHER -> Raise("ValueError", <<"Expecting value">>)
    ELSE IF resp.body = "list"
    THEN Raise("AttributeError", <<"'list' object has no attribute 'get'">>)
    ELSE IF resp.ok # "true"
    THEN RemoteErrorOf(resp)
    ELSE Return(resp.data)

\* a client operation's result: the call's outcome and the requests issued
Done(r, reqs) == [reqs |-> reqs] @@ r

----------------------------------------------------------------------------
(* Spelling of the identifier strings the model draws: what startswith and *)
(* strip see.                                                              *)

FirstChar(s) ==
    CASE s \in {"C1", "C2"} -> "C"
      [] s = "U1" -> "U"
      [] s = "#general" -> "#"
      [] s = "general" -> "g"
      [] s = " C2" -> " "
      [] OTHER -> ""

\* s[1:] for the one drawn string that starts with '#'
DropFirst(s) == IF s = "#general" THEN "general" ELSE s

\* s.strip()
Strip(s) == IF s = " C2" THEN "C2" ELSE s

\* os.path.basename
Basename(path) == IF path = "/tmp/report.txt" THEN "report.txt"
                  ELSE IF path = "/tmp/missing.txt" THEN "missing.txt" ELSE path

\* truthiness of an optional string
TruthyUnlessNone(s) == s # None
Truthy(s) == s # None /\ s # ""

----------------------------------------------------------------------------
(* SlackAPIClient: the typed operations.  Each takes the answers its       *)
(* requests meet and yields Done(outcome, requests issued).                *)

\* send_message
send_message(channel, text, thread_ts, resp) ==
    LET ch == IF FirstChar(channel) = "#" THEN DropFirst(channel) ELSE channel
        data == [channel |-> ch, text |-> text, unfurl_links |-> TRUE,
                 unfurl_media |-> TRUE,
                 thread_ts |-> IF Truthy(thread_ts) THEN thread_ts ELSE "absent"]
    IN  Done(MakeRequest(resp), <<Request("POST", "chat.postMessage", data, resp)>>)

\* the except clause of get_channels
GetChannelsOnError(e) ==
    IF Contains(e.error, "missing_scope")
    THEN SlackAPIError(<<"No permission to list channels. The scope ",
                         "'channels:read'", " is required.">>)
    ELSE e

SlackChannel(cd) ==
    [id |-> cd.id, name |-> cd.name,
     is_private |-> cd.is_private, is_member |-> cd.is_member]

\* get_channels
get_channels(resp) ==
    LET params == [types |-> "public_channel", exclude_archived |-> TRUE,
                   limit |-> ChannelsLimit]
        reqs == <<Request("GET", "conversations.list", params, resp)>>
    IN  With(MakeRequest(resp), LAMBDA r :
            IF r.exc = "SlackAPIError" THEN Done(GetChannelsOnError(r), reqs)
            ELSE IF r.exc # "none" THEN Done(r, reqs)
            ELSE IF \E i \in DOMAIN r.value.channels : r.value.channels[i].id = "absent"
            THEN Done(Raise("KeyError", <<"'id'">>), reqs)
            ELSE Done(Return([i \in DOMAIN r.value.channels |->
                                  SlackChannel(r.value.channels[i])]), reqs))

\* the min(limit, 100) of get_channel_history
HistoryLimit(limit) == Min(limit, HistoryCap)

\* the subtype test of get_channel_history's loop
IsSkippedKeepLeave(subtype) == subtype \in {"bot_message", "channel_join"}
IsSkipped(subtype) == subtype \in {"bot_message", "channel_join", "channel_leave"}

HistoryMessage(md, channel_id) ==
    [text |-> Get(md.text, ""), user |-> Get(md.user, ""),
     timestamp |-> Get(md.ts, ""), channel |-> channel_id,
     user_name |-> None, thread_ts |-> Get(md.thread_ts, None)]

\* the for loop of get_channel_history
RECURSIVE HistoryLoop(_, _)
HistoryLoop(msgs, channel_id) ==
    IF msgs = <<>> THEN <<>>
    ELSE IF IsSkipped(Get(Head(msgs).subtype, None))
    THEN HistoryLoop(Tail(msgs), channel_id)
    ELSE <<HistoryMessage(Head(msgs), channel_id)>>
         \o HistoryLoop(Tail(msgs), channel_id)

\* the except clause of get_channel_history
GetHistoryRaw(e) == e
GetHistoryOnError(e) ==
    IF Contains(e.error, "missing_scope")
    THEN SlackAPIError(<<"No permission to read the channel history. The scope ",
                         "'channels:history'", " is required.">>)
    ELSE e

\* get_channel_history
get_channel_history(channel_id, limit, oldest, latest, resp) ==
    LET params == [channel |-> channel_id, limit |-> HistoryLimit(limit),
                   oldest |-> IF Truthy(oldest) THEN oldest ELSE "absent",
                   latest |-> IF Truthy(latest) THEN latest ELSE "absent"]
        reqs == <<Request("GET", "conversations.history", params, resp)>>
    IN  With(MakeRequest(resp), LAMBDA r :
            IF r.exc = "SlackAPIError" THEN Done(GetHistoryOnError(r), reqs)
            ELSE IF r.exc # "none" THEN Done(r, reqs)
            ELSE Done(Return(HistoryLoop(r.value.messages, channel_id)), reqs))

\* dm_result['channel']['id'] raises KeyError when the answer has no channel
DmChannelMissingNever(dm_result) == FALSE
DmChannelMissing(dm_result) == dm_result.channel_id = "absent"

\* send_direct_message: conversations.open, then send_message
send_direct_message(user_id, text, respOpen, respSend) ==
    LET open == Request("POST", "conversations.open", [users |-> user_id], respOpen)
    IN  With(MakeRequest(respOpen), LAMBDA r :
            IF r.exc # "none" THEN Done(r, <<open>>)
            ELSE IF DmChannelMissing(r.value)
            THEN Done(Raise("KeyError", <<"'channel'">>), <<open>>)
            ELSE With(send_message(r.value.channel_id, text, None, respSend),
                      LAMBDA s : Done(s, <<open>> \o s.reqs)))

\* the min(limit, 1000) of get_users
UsersLimit(limit) == Min(limit, UsersCap)

SlackUser(ud) ==
    [id |-> ud.id, name |-> ud.name, real_name |-> Get(ud.real_name, ""),
     is_bot |-> ud.is_bot]

RECURSIVE UsersLoop(_)
UsersLoop(members) ==
    IF members = <<>> THEN <<>>
    ELSE IF Head(members).deleted THEN UsersLoop(Tail(members))
    ELSE <<SlackUser(Head(members))>> \o UsersLoop(Tail(members))

\* get_users
get_users(limit, resp) ==
    LET reqs == <<Request("GET", "users.list", [limit |-> UsersLimit(limit)], resp)>>
    IN  With(MakeRequest(resp), LAMBDA r :
            IF r.exc # "none" THEN Done(r, reqs)
            ELSE IF \E i \in DOMAIN r.value.members :
                        /\ ~r.value.members[i].deleted
                        /\ r.value.members[i].id = "absent"
            THEN Done(Raise("KeyError", <<"'id'">>), reqs)
            ELSE Done(Return(UsersLoop(r.value.members)), reqs))

\* get_user_info
get_user_info(user_id, resp) ==
    LET reqs == <<Request("GET", "users.info", [user |-> user_id], resp)>>
    IN  With(MakeRequest(resp), LAMBDA r :
            IF r.exc # "none" THEN Done(r, reqs)
            ELSE IF ~r.value.has_user
            THEN Done(Raise("KeyError", <<"'user'">>), reqs)
            ELSE Done(Return(SlackUser(r.value.user)), reqs))

\* the min(count, 100) of search_messages
SearchCount(count) == Min(count, SearchCap)

\* search_messages
search_messages(query, count, sort, resp) ==
    LET params == [query |-> query, count |-> SearchCount(count), sort |-> sort]
        reqs == <<Request("GET", "search.messages", params, resp)>>
    IN  With(MakeRequest(resp), LAMBDA r :
            IF r.exc = "SlackAPIError"
            THEN IF r.error \in {<<"not_allowed_token_type">>, <<"missing_scope">>}
                 THEN Done(SlackAPIError(
                          <<"No permission to search messages. Add ", "'search:read'",
                            " to the OAuth scopes of the Slack app. ",
                            "Current error: ">> \o r.error), reqs)
                 ELSE Done(r, reqs)
            ELSE IF r.exc # "none" THEN Done(r, reqs)
            ELSE Done(Return(r.value.matches), reqs))

\* add_reaction
add_reaction(channel, timestamp, name, resp) ==
    Done(MakeRequest(resp),
         <<Request("POST", "reactions.add",
                   [channel |-> channel, timestamp |-> timestamp, name |-> name],
                   resp)>>)

ReplyMessage(md, channel) ==
    [text |-> Get(md.text, ""), user |-> Get(md.user, "unknown"),
     timestamp |-> Get(md.ts, ""), channel |-> channel,
     user_name |-> None, thread_ts |-> Get(md.thread_ts, None)]

\* get_thread_replies
get_thread_replies(channel, thread_ts, resp) ==
    LET reqs == <<Request("GET", "conversations.replies",
                          [channel |-> channel, ts |-> thread_ts], resp)>>
    IN  With(MakeRequest(resp), LAMBDA r :
            IF r.exc # "none" THEN Done(r, reqs)
            ELSE Done(Return([i \in DOMAIN r.value.messages |->
                                  ReplyMessage(r.value.messages[i], channel)]), reqs))

\* test_connection
test_connection(resp) ==
    Done(MakeRequest(resp), <<Request("GET", "auth.test", <<>>, resp)>>)

----------------------------------------------------------------------------
(* SlackAPIClient.upload_file.  channels is [kind |-> "str" | "list", val]; *)
(* fs is what the file system answers for file_path: [exists, readable,    *)
(* size]; env holds the answers of the up to four requests: list (channel  *)
(* lookup), url (files.getUploadURLExternal), put (the byte transfer) and  *)
(* complete (files.completeUploadExternal).                                *)

\* if not os.path.exists(file_path)
FileMissingNever(fs) == FALSE
FileMissing(fs) == ~fs.exists

\* isinstance(channels, str) and not channels.startswith('C')
NeedsLookup(channels) == channels.kind = "str" /\ FirstChar(channels.val) # "C"

\* the for loop over channel_list: the id of the first channel of that name
RECURSIVE FindChannelId(_, _)
FindChannelId(channel_list, name) ==
    IF channel_list = <<>> THEN None
    ELSE IF Head(channel_list).name = name THEN Head(channel_list).id
    ELSE FindChannelId(Tail(channel_list), name)

\* step 0: the channel name is turned into an id
UploadResolve(channels, env) ==
    IF ~NeedsLookup(channels) THEN Done(Return(channels), <<>>)
    ELSE With(get_channels(env.list), LAMBDA l :
            IF l.exc # "none" THEN l
            ELSE With(FindChannelId(l.value, channels.val), LAMBDA id :
                    IF id = None
                    THEN Done(SlackAPIError(<<"Channel not found: ", channels.val>>),
                              l.reqs)
                    ELSE Done(Return([kind |-> "str", val |-> id]), l.reqs)))

\* step 1: files.getUploadURLExternal
UploadGetUrl(file_path, fs, env) ==
    IF ~fs.exists
    THEN Done(Raise("FileNotFoundError", <<"No such file: ", file_path>>), <<>>)
    ELSE LET reqs == <<Request("GET", "files.getUploadURLExternal",
                               [filename |-> Basename(file_path),
                                length |-> fs.size], env.url)>>
         IN  With(MakeRequest(env.url), LAMBDA r :
                IF r.exc # "none" THEN Done(r, reqs)
                ELSE IF r.value.upload_url = "absent"
                THEN Done(Raise("KeyError", <<"'upload_url'">>), reqs)
                ELSE IF r.value.file_id = "absent"
                THEN Done(Raise("KeyError", <<"'file_id'">>), reqs)
                ELSE Done(r, reqs))

\* if response.status_code != 200: raise
UploadAcceptedAny2xx(status) == status >= 200 /\ status <= 299
UploadAccepted(status) == status = UploadOkStatus

\* step 2: the bytes go to upload_url, without the client's headers
UploadTransfer(file_path, fs, upload_url, env) ==
    IF ~fs.readable
    THEN Done(Raise("PermissionError", <<"Permission denied: ", file_path>>), <<>>)
    ELSE LET reqs == <<[op |-> "", method |-> "POST", host |-> upload_url,
                        endpoint |-> "", auth |-> None,
                        payload |-> [file |-> Basename(file_path)],
                        answer |-> env.put]>>
         IN  IF env.put.net # "ok"
             THEN Done(Raise("RequestException", <<env.put.net>>), reqs)
             ELSE IF ~UploadAccepted(env.put.status)
             THEN Done(SlackAPIError(<<"File upload failed: HTTP ",
                                       ToString(env.put.status)>>), reqs)
             ELSE Done(Return(None), reqs)

\* 'channel_id': channels if isinstance(channels, str) else channels[0]
FinalizeChannel(channels) ==
    IF channels.kind = "str" THEN channels.val ELSE channels.val[1]

\* step 3: files.completeUploadExternal
UploadComplete(channels, file_path, title, initial_comment, file_id, env) ==
    LET data == [files |-> <<[id |-> file_id,
                              title |-> IF Truthy(title) THEN title
                                        ELSE Basename(file_path)]>>,
                 channel_id |-> FinalizeChannel(channels),
                 initial_comment |-> IF Truthy(initial_comment)
                                     THEN initial_comment ELSE "absent"]
    IN  Done(MakeRequest(env.complete),
             <<Request("POST", "files.completeUploadExternal", data, env.complete)>>)

\* the body of the try statement
UploadTry(channels, file_path, title, initial_comment, fs, env) ==
    With(UploadResolve(channels, env), LAMBDA c :
      IF c.exc # "none" THEN c
      ELSE With(UploadGetUrl(file_path, fs, env), LAMBDA u :
        IF u.exc # "none" THEN Done(u, c.reqs \o u.reqs)
        ELSE With(UploadTransfer(file_path, fs, u.value.upload_url, env), LAMBDA t :
          IF t.exc # "none" THEN Done(t, c.reqs \o u.reqs \o t.reqs)
          ELSE With(UploadComplete(c.value, file_path, title, initial_comment,
                                   u.value.file_id, env), LAMBDA f :
                 Done(f, c.reqs \o u.reqs \o t.reqs \o f.reqs)))))

\* the two except clauses of upload_file
UploadOnError(r) ==
    IF r.exc = "none" THEN r
    ELSE IF r.exc = "RequestException"
    THEN SlackAPIError(<<"Network error during file upload: ">> \o r.error)
    ELSE SlackAPIError(<<"File upload failed: ">> \o
                       (IF r.exc = "SlackAPIError" THEN SlackAPIErrorStr(r.error)
                        ELSE r.error))

\* upload_file
upload_file(channels, file_path, title, initial_comment, fs, env) ==
    IF FileMissing(fs)
    THEN Done(SlackAPIError(<<"File not found: ", file_path>>), <<>>)
    ELSE With(UploadTry(channels, file_path, title, initial_comment, fs, env),
              LAMBDA t : Done(UploadOnError(t), t.reqs))

----------------------------------------------------------------------------
(* slack_mcp_server.py: the formatting helpers *)

\* format_timestamp: the local date and time of float(timestamp), or the
\* string itself when float() raises ValueError
format_timestamp(timestamp) ==
    IF IsFloat(timestamp) THEN <<"localtime(", timestamp, ")">>
    ELSE <<timestamp>>

FormatMessage(msg) ==
    <<"[">> \o format_timestamp(msg.timestamp)
    \o <<"] ", IF Truthy(msg.user_name) THEN msg.user_name ELSE msg.user,
         ": ", msg.text>>
    \o (IF Truthy(msg.thread_ts) THEN <<" (thread reply)">> ELSE <<>>)
    \o <<" -> timestamp: ", msg.timestamp>>

RECURSIVE JoinMessages(_)
JoinMessages(messages) ==
    IF messages = <<>> THEN <<>>
    ELSE IF Len(messages) = 1 THEN FormatMessage(messages[1])
    ELSE FormatMessage(Head(messages)) \o <<"\n">> \o JoinMessages(Tail(messages))

\* format_message_list
format_message_list(messages) ==
    IF messages = <<>> THEN <<"No messages.">> ELSE JoinMessages(messages)

FormatChannel(channel) ==
    <<"#", channel.name, " (ID: ", channel.id, ") - ",
      IF channel.is_private THEN "private" ELSE "public", ", ",
      IF channel.is_member THEN "member" ELSE "not a member">>

RECURSIVE JoinChannels(_)
JoinChannels(channels) ==
    IF channels = <<>> THEN <<>>
    ELSE IF Len(channels) = 1 THEN FormatChannel(channels[1])
    ELSE FormatChannel(Head(channels)) \o <<"\n\n">> \o JoinChannels(Tail(channels))

\* format_channel_list
format_channel_list(channels) ==
    IF channels = <<>> THEN <<"No accessible channels.">> ELSE JoinChannels(channels)

FormatUser(user) ==
    <<user.real_name, " (@", user.name, ") - ID: ", user.id>>
    \o (IF user.is_bot THEN <<" bot">> ELSE <<>>)

RECURSIVE JoinUsers(_)
JoinUsers(users) ==
    IF users = <<>> THEN <<>>
    ELSE IF Len(users) = 1 THEN FormatUser(users[1])
    ELSE FormatUser(Head(users)) \o <<"\n\n">> \o JoinUsers(Tail(users))

\* format_user_list
format_user_list(users) ==
    IF users = <<>> THEN <<"No users.">> ELSE JoinUsers(users)

----------------------------------------------------------------------------
(* slack_mcp_server.py: the tool procedures.  A tool's try body evaluates  *)
(* to [exc, error, text]; its except clauses turn that into the outcome.   *)

Body(text) == [exc |-> "none", error |-> <<>>, text |-> text]
Fault(r) == [text |-> <<>>] @@ r

\* the except clauses every tool ends with:
\*   except SlackAPIError as e: return <failure text with e.error>
\*   except Exception as e:     return <generic text with str(e)>
ExceptClausesNoCatchAll(body, failure) ==
    IF body.exc = "none" THEN [kind |-> "returned", text |-> body.text]
    ELSE IF body.exc = "SlackAPIError" THEN [kind |-> "returned", text |-> failure]
    ELSE [kind |-> "raised", text |-> body.error]
ExceptClauses(body, failure) ==
    IF body.exc = "none" THEN [kind |-> "returned", text |-> body.text]
    ELSE IF body.exc = "SlackAPIError" THEN [kind |-> "returned", text |-> failure]
    ELSE [kind |-> "returned", text |-> <<"Unexpected error: ">> \o body.error]

\* the requests of one client operation, marked with that operation
Tag(op, reqs) == [i \in DOMAIN reqs |-> [reqs[i] EXCEPT !.op = op]]

\* before any client operation was called
NoResult == [exc |-> "not called", error |-> <<>>, value |-> None]

Invocation(o, reqs, res, out, v) ==
    [ops |-> o, requests |-> reqs, result |-> res, outcome |-> out, view |-> v]

\* send_slack_message
send_slack_message(channel, text, resp) ==
    With(send_message(channel, text, None, resp), LAMBDA r :
        LET body == IF r.exc # "none" THEN Fault(r)
                    ELSE Body(<<"Message sent. channel: ", channel, " message: ", text,
                                " timestamp: ">> \o format_timestamp(Get(r.value.ts, "")))
        IN  Invocation(<<"send_message">>, Tag("send_message", r.reqs), r,
                       ExceptClauses(body, <<"Message send failed: ">> \o r.error
                                           \o <<" channel: ", channel,
                                                " message: ", text>>),
                       <<>>))

\* [ch for ch in channels if (not) ch.is_private]
Private(channels, p) == SelectSeq(channels, LAMBDA ch : ch.is_private = p)

\* get_slack_channels
get_slack_channels(resp) ==
    With(get_channels(resp), LAMBDA r :
        LET body == IF r.exc # "none" THEN Fault(r)
                    ELSE IF r.value = <<>> THEN Body(<<"No accessible channels.">>)
                    ELSE Body(<<"Found channels: ", ToString(Len(r.value))>>
                              \o (IF Private(r.value, FALSE) # <<>>
                                  THEN <<"public: ">>
                                       \o format_channel_list(Private(r.value, FALSE))
                                  ELSE <<>>)
                              \o (IF Private(r.value, TRUE) # <<>>
                                  THEN <<"private: ">>
                                       \o format_channel_list(Private(r.value, TRUE))
                                  ELSE <<>>))
        IN  Invocation(<<"get_channels">>, Tag("get_channels", r.reqs), r,
                       ExceptClauses(body, <<"Channel list failed: ">> \o r.error),
                       <<>>))

\* limit = max(1, min(limit, cap))
ClampNoFloor(value, cap) == Min(value, cap)
Clamp(value, cap) == Max(1, Min(value, cap))

\* key=lambda x: float(x.timestamp)
TsKey(msg) == FloatValue(msg.timestamp)

\* list.sort places an element after the elements whose key is not greater
InsertBeforeEqual(msg, sorted) ==
    LET k == Cardinality({i \in DOMAIN sorted : TsKey(sorted[i]) < TsKey(msg)})
    IN  SubSeq(sorted, 1, k) \o <<msg>> \o SubSeq(sorted, k + 1, Len(sorted))
SortInsert(msg, sorted) ==
    LET k == Cardinality({i \in DOMAIN sorted : TsKey(sorted[i]) <= TsKey(msg)})
    IN  SubSeq(sorted, 1, k) \o <<msg>> \o SubSeq(sorted, k + 1, Len(sorted))

RECURSIVE SortedByTs(_)
SortedByTs(messages) ==
    IF messages = <<>> THEN <<>>
    ELSE With(SortedByTs(SubSeq(messages, 1, Len(messages) - 1)),
              LAMBDA front : SortInsert(messages[Len(messages)], front))

\* messages.sort(key=lambda x: float(x.timestamp)): the keys are computed
\* first, so one timestamp float() rejects raises ValueError
SortMessages(messages) ==
    IF \E i \in DOMAIN messages : ~IsFloat(messages[i].timestamp)
    THEN Raise("ValueError", <<"could not convert string to float">>)
    ELSE Return(SortedByTs(messages))

\* get_slack_channel_history
get_slack_channel_history(channel_id, limit, resp) ==
    With(get_channel_history(channel_id, Clamp(limit, HistoryCap), None, None, resp),
         LAMBDA r :
        IF r.exc # "none" \/ r.value = <<>>
        THEN LET body == IF r.exc # "none" THEN Fault(r)
                         ELSE Body(<<"No messages in channel ", channel_id>>)
             IN  Invocation(<<"get_channel_history">>,
                            Tag("get_channel_history", r.reqs), r,
                            ExceptClauses(body, <<"Channel history failed: ">> \o r.error
                                                \o <<" channel id: ", channel_id>>),
                            <<>>)
        ELSE With(SortMessages(r.value), LAMBDA sorted :
             LET body == IF sorted.exc # "none" THEN Fault(sorted)
                         ELSE Body(<<"Channel ", channel_id, " messages: ",
                                     ToString(Len(sorted.value))>>
                                   \o format_message_list(sorted.value))
             IN  Invocation(<<"get_channel_history">>,
                            Tag("get_channel_history", r.reqs), r,
                            ExceptClauses(body, <<>>),
                            IF sorted.exc = "none" THEN sorted.value ELSE <<>>)))

\* the user-detail lookup follows the send inside the same try body
UserLookupAlways(r) == TRUE
UserLookupIssued(r) == r.exc = "none"

\* the bare except around the lookup: no exception of get_user_info is
\* left for the tool's own except clauses
LookupFaultUnlessSlackAPIError(u) == IF u.exc = "SlackAPIError" THEN "none" ELSE u.exc
LookupFault(u) == "none"

\* send_slack_direct_message
send_slack_direct_message(user_id, text, respOpen, respSend, respInfo) ==
    With(send_direct_message(user_id, text, respOpen, respSend), LAMBDA r :
    With(get_user_info(user_id, respInfo), LAMBDA u :
        LET user_display == IF u.exc = "none"
                            THEN <<u.value.real_name, " (@", u.value.name, ")">>
                            ELSE <<user_id>>
            body == IF r.exc # "none" THEN Fault(r)
                    ELSE IF LookupFault(u) # "none" THEN Fault(u)
                    ELSE Body(<<"Direct message sent. recipient: ">> \o user_display
                              \o <<" message: ", text, " timestamp: ">>
                              \o format_timestamp(Get(r.value.ts, "")))
            looked == UserLookupIssued(r)
        IN  Invocation(<<"send_direct_message">>
                           \o (IF looked THEN <<"get_user_info">> ELSE <<>>),
                       Tag("send_direct_message", r.reqs)
                           \o (IF looked THEN Tag("get_user_info", u.reqs) ELSE <<>>),
                       r,
                       ExceptClauses(body, <<"Direct message failed: ">> \o r.error
                                           \o <<" user id: ", user_id,
                                                " message: ", text>>),
                       <<>>)))

\* [user for user in users if (not) user.is_bot]
Bots(users, b) == SelectSeq(users, LAMBDA u : u.is_bot = b)

\* get_slack_users
get_slack_users(limit, resp) ==
    With(get_users(Clamp(limit, UsersCap), resp), LAMBDA r :
        LET body == IF r.exc # "none" THEN Fault(r)
                    ELSE IF r.value = <<>> THEN Body(<<"No users found.">>)
                    ELSE Body(<<"Found users: ", ToString(Len(r.value))>>
                              \o (IF Bots(r.value, FALSE) # <<>>
                                  THEN <<"regular: ">>
                                       \o format_user_list(Bots(r.value, FALSE))
                                  ELSE <<>>)
                              \o (IF Bots(r.value, TRUE) # <<>>
                                  THEN <<"bots: ">> \o format_user_list(Bots(r.value, TRUE))
                                  ELSE <<>>))
        IN  Invocation(<<"get_users">>, Tag("get_users", r.reqs), r,
                       ExceptClauses(body, <<"User list failed: ">> \o r.error), <<>>))

RECURSIVE FormatMatches(_, _)
FormatMatches(results, i) ==
    IF i > Len(results) THEN <<>>
    ELSE <<ToString(i), ". [">> \o format_timestamp(Get(results[i].ts, ""))
         \o <<"] ", Get(results[i].text, "")>> \o FormatMatches(results, i + 1)

\* search_slack_messages; a match's user is "absent", "dict" or "str", and
\* result.get('user', {}).get('name', ...) raises AttributeError on a string
search_slack_messages(query, count, resp) ==
    With(search_messages(query, Clamp(count, SearchCap), "timestamp", resp), LAMBDA r :
        LET body == IF r.exc # "none" THEN Fault(r)
                    ELSE IF r.value = <<>>
                    THEN Body(<<"No messages found for ", query>>)
                    ELSE IF \E i \in DOMAIN r.value : r.value[i].user = "str"
                    THEN Fault(Raise("AttributeError",
                                     <<"'str' object has no attribute 'get'">>))
                    ELSE Body(<<"Search results for ", query, ": ",
                                ToString(Len(r.value))>> \o FormatMatches(r.value, 1))
        IN  Invocation(<<"search_messages">>, Tag("search_messages", r.reqs), r,
                       ExceptClauses(body, <<"Message search failed: ">> \o r.error
                                           \o <<" query: ", query>>),
                       <<>>))

\* the channels argument of upload_slack_file is a comma-separated string,
\* held as the sequence of its pieces; this is the string itself
RECURSIVE JoinComma(_)
JoinComma(parts) ==
    IF Len(parts) <= 1 THEN parts
    ELSE <<Head(parts), ",">> \o JoinComma(Tail(parts))

\* if channels.startswith('U') and ',' not in channels: ... else: split
ChannelParam(parts) ==
    IF FirstChar(parts[1]) = "U" /\ Len(parts) = 1
    THEN [kind |-> "str", val |-> parts[1]]
    ELSE [kind |-> "list", val |-> [i \in DOMAIN parts |-> Strip(parts[i])]]

\* upload_slack_file
upload_slack_file(parts, file_path, title, initial_comment, fs, env) ==
    IF ~fs.exists
    THEN Invocation(<<>>, <<>>, NoResult,
                    [kind |-> "returned", text |-> <<"File not found: ", file_path>>],
                    <<>>)
    ELSE With(upload_file(ChannelParam(parts), file_path, title, initial_comment,
                          fs, env), LAMBDA r :
        LET file_name == IF r.value.files # <<>>
                         THEN Get(r.value.files[1].name, Basename(file_path))
                         ELSE Basename(file_path)
            body == IF r.exc # "none" THEN Fault(r)
                    ELSE Body(<<"File uploaded. name: ", file_name, " channels: ">>
                              \o JoinComma(parts)
                              \o <<" title: ", IF Truthy(title) THEN title ELSE "none",
                                   " comment: ",
                                   IF Truthy(initial_comment) THEN initial_comment
                                   ELSE "none">>)
        IN  Invocation(<<"upload_file">>, Tag("upload_file", r.reqs), r,
                       ExceptClauses(body, <<"File upload failed: ">> \o r.error
                                           \o <<" file: ", file_path, " channels: ">>
                                           \o JoinComma(parts)),
                       <<>>))

\* emoji.strip(':')
StripColons(emoji) == IF emoji = ":thumbsup:" THEN "thumbsup" ELSE emoji

\* add_slack_reaction
add_slack_reaction(channel, timestamp, emoji, resp) ==
    With(add_reaction(channel, timestamp, StripColons(emoji), resp), LAMBDA r :
        LET name == StripColons(emoji)
            body == IF r.exc # "none" THEN Fault(r)
                    ELSE Body(<<"Reaction added. channel: ", channel, " message time: ">>
                              \o format_timestamp(timestamp)
                              \o <<" emoji: :", name, ":">>)
        IN  Invocation(<<"add_reaction">>, Tag("add_reaction", r.reqs), r,
                       ExceptClauses(body, <<"Reaction failed: ">> \o r.error
                                           \o <<" channel: ", channel, " timestamp: ",
                                                timestamp, " emoji: ", name>>),
                       <<>>))

\* thread_replies = replies[1:] if len(replies) > 1 else []
RepliesWithParent(replies) == replies
RepliesOnly(replies) == IF Len(replies) > 1 THEN Tail(replies) ELSE <<>>

\* get_slack_thread_replies
get_slack_thread_replies(channel, thread_ts, resp) ==
    With(get_thread_replies(channel, thread_ts, resp), LAMBDA r :
        LET thread_replies == RepliesOnly(r.value)
            body == IF r.exc # "none" THEN Fault(r)
                    ELSE IF r.value = <<>>
                    THEN Body(<<"No replies in the thread. channel: ", channel,
                                " thread: ">> \o format_timestamp(thread_ts))
                    ELSE Body(<<"Thread replies: ", ToString(Len(thread_replies)),
                                " parent message time: ">>
                              \o format_timestamp(thread_ts)
                              \o (IF thread_replies # <<>>
                                  THEN format_message_list(thread_replies)
                                  ELSE <<"No replies.">>))
        IN  Invocation(<<"get_thread_replies">>, Tag("get_thread_replies", r.reqs), r,
                       ExceptClauses(body, <<"Thread replies failed: ">> \o r.error
                                           \o <<" channel: ", channel, " thread: ",
                                                thread_ts>>),
                       IF r.exc = "none" /\ r.value # <<>> THEN thread_replies
                       ELSE <<>>))

\* send_slack_thread_reply
send_slack_thread_reply(channel, thread_ts, text, resp) ==
    With(send_message(channel, text, thread_ts, resp), LAMBDA r :
        LET body == IF r.exc # "none" THEN Fault(r)
                    ELSE Body(<<"Thread reply sent. channel: ", channel, " parent: ">>
                              \o format_timestamp(thread_ts)
                              \o <<" reply: ", text, " reply time: ">>
                              \o format_timestamp(Get(r.value.ts, "")))
        IN  Invocation(<<"send_message">>, Tag("send_message", r.reqs), r,
                       ExceptClauses(body, <<"Thread reply failed: ">> \o r.error
                                           \o <<" channel: ", channel, " thread: ",
                                                thread_ts, " reply: ", text>>),
                       <<>>))

\* test_slack_connection
test_slack_connection(resp) ==
    With(test_connection(resp), LAMBDA r :
        LET body == IF r.exc # "none" THEN Fault(r)
                    ELSE Body(<<"Slack API connection ok. team: ",
                                Get(r.value.team, "Unknown"), " bot user: ",
                                Get(r.value.user, "Unknown"), " time: ", "now">>)
        IN  Invocation(<<"test_connection">>, Tag("test_connection", r.reqs), r,
                       ExceptClauses(body, <<"Slack API connection failed: ">> \o r.error
                                           \o <<" Check the token.">>),
                       <<>>))

----------------------------------------------------------------------------
(* The inputs the actions draw: arguments and answers *)

ChannelArgs == {"general", "#general", "C1"}
TextArgs == {"hello", "hi there"}
LimitArgs == {-5, 0, 1, 50, 100, 101, 1000, 1001}
HistoryLimitArgs == {-5, 0, 1, 50, 100, 101}
TsArgs == {"9.5", "abc"}
ChannelIdents == {"C1", " C2", "U1", "general"}

PostMessageResps ==
    FailResps({"channel_not_found"})
    \cup {OkResp([ts |-> "1690000000.000100", channel |-> "C1"]),
          OkResp([ts |-> "absent", channel |-> "absent"])}

ChannelGeneral == [id |-> "C1", name |-> "general", is_private |-> FALSE, is_member |-> TRUE]
ChannelRandom == [id |-> "C2", name |-> "random", is_private |-> TRUE, is_member |-> FALSE]
ChannelNoId == [id |-> "absent", name |-> "x", is_private |-> FALSE, is_member |-> FALSE]

ListResps ==
    FailResps({"missing_scope", "invalid_auth"})
    \cup {OkResp([channels |-> c]) :
            c \in {<<>>, <<ChannelGeneral>>, <<ChannelRandom, ChannelGeneral>>,
                   <<ChannelNoId>>}}

Entry(ts, subtype, thread_ts, user) ==
    [text |-> "absent", user |-> user, ts |-> ts, subtype |-> subtype,
     thread_ts |-> thread_ts]

\* entries of a conversations.history answer: timestamps that are equal as
\* numbers but not as strings, one float() rejects, every skipped subtype
HistoryEntries ==
    {Entry("10.5", "absent", "absent", "U1"),
     Entry("9.5", "absent", "absent", "U1"),
     Entry("9.5", "bot_message", "absent", "absent"),
     Entry("10.5", "channel_join", "absent", "U1"),
     Entry("9.5", "channel_leave", "absent", "U1"),
     Entry("10.50", "file_share", "9.5", "U2"),
     Entry("absent", "absent", "absent", "U1")}

ReplyEntries ==
    {Entry("9.5", "absent", "9.5", "U1"),
     Entry("10.5", "bot_message", "9.5", "absent"),
     Entry("10.50", "absent", "9.5", "U2")}

\* the lists of at most MaxMsgs entries; the text of entry i is "i", so an
\* entry is told from an equal one at another place of the answer
EntryLists(entries) ==
    UNION {{[i \in 1..n |-> [f[i] EXCEPT !.text = ToString(i)]] :
              f \in [1..n -> entries]} : n \in 0..MaxMsgs}

HistoryResps ==
    FailResps({"missing_scope", "channel_not_found"})
    \cup {OkResp([messages |-> m]) : m \in EntryLists(HistoryEntries)}

RepliesResps ==
    FailResps({"thread_not_found"})
    \cup {OkResp([messages |-> m]) : m \in EntryLists(ReplyEntries)}

OpenResps ==
    FailResps({"user_not_found"})
    \cup {OkResp([channel_id |-> "D1"]), OkResp([channel_id |-> "absent"])}

Member(id, deleted, is_bot) ==
    [id |-> id, name |-> "ann", real_name |-> "Ann Lee", deleted |-> deleted,
     is_bot |-> is_bot]

UsersResps ==
    FailResps({"missing_scope"})
    \cup {OkResp([members |-> m]) :
            m \in {<<>>, <<Member("U1", FALSE, FALSE)>>,
                   <<Member("U1", FALSE, FALSE), Member("U2", TRUE, FALSE),
                     Member("U3", FALSE, TRUE)>>,
                   <<Member("absent", FALSE, FALSE)>>}}

InfoResps ==
    FailResps({"user_not_found"})
    \cup {OkResp([has_user |-> TRUE, user |-> Member("U1", FALSE, FALSE)]),
          OkResp([has_user |-> FALSE, user |-> Member("absent", FALSE, FALSE)])}

Match(ts, user) == [text |-> "hello world", ts |-> ts, user |-> user]

SearchResps ==
    FailResps({"missing_scope", "not_allowed_token_type"})
    \cup {OkResp([matches |-> m]) :
            m \in {<<>>, <<Match("9.5", "dict")>>,
                   <<Match("10.5", "absent"), Match("9.5", "str")>>}}

ReactionResps == FailResps({"already_reacted"}) \cup {OkResp(<<>>)}

AuthResps ==
    FailResps({"invalid_auth"})
    \cup {OkResp([team |-> "Acme", user |-> "bot"]),
          OkResp([team |-> "absent", user |-> "absent"])}

RemoteFail(tag) == Resp("ok", 200, "json", "false", tag, <<>>)
NetFail == Resp("ConnectionError", 0, "none", "absent", "absent", <<>>)

\* the answers _make_request is tried on by itself: also a 2xx status that
\* is not 200 and a final 3xx status, which raise_for_status lets pass
MakeRequestResps ==
    FailResps({"invalid_auth"})
    \cup {OkResp([team |-> "T1", user |-> "bot"]),
          Resp("ok", 201, "json", "true", "absent", [team |-> "T1", user |-> "bot"]),
          Resp("ok", 204, "garbage", "absent", "absent", <<>>),
          Resp("ok", 304, "json", "true", "absent", [team |-> "T1", user |-> "bot"]),
          Resp("ok", 304, "json", "false", "invalid_auth", <<>>),
          Resp("ok", 403, "json", "false", "invalid_auth", <<>>)}

UploadEnvs ==
    [list : {OkResp([channels |-> <<ChannelRandom, ChannelGeneral>>]),
             OkResp([channels |-> <<>>]), RemoteFail("missing_scope")},
     url : {OkResp([upload_url |-> "https://files.slack.com/upload/v1/abc",
                    file_id |-> "F1"]),
            OkResp([upload_url |-> "absent", file_id |-> "F1"]),
            RemoteFail("invalid_auth")},
     put : {NetFail} \cup {Resp("ok", st, "none", "absent", "absent", <<>>) :
                             st \in {200, 201, 403, 500}},
     complete : {OkResp([files |-> <<[name |-> "report.txt"]>>]),
                 OkResp([files |-> <<>>]), RemoteFail("channel_not_found")}]

\* what the file system holds at file_path
FileStates ==
    {[exists |-> FALSE, readable |-> FALSE, size |-> 0],
     [exists |-> TRUE, readable |-> FALSE, size |-> 12],
     [exists |-> TRUE, readable |-> TRUE, size |-> 12]}

TitleComments == {<<None, None>>, <<"Q3 report", "see attached">>}

\* the comma-separated channels arguments: 1..MaxChans identifiers
ChannelParts == UNION {[1..n -> ChannelIdents] : n \in 1..MaxChans}

----------------------------------------------------------------------------
\* SlackAPIClient.__init__: self.headers
ClientHeaders(t) ==
    [Authorization |-> <<"Bearer ", t>>,
     ContentType |-> "application/json; charset=utf-8",
     UserAgent |-> "SlackMCP/1.0"]

\* before any invocation was taken note of
NoCall == [tool |-> "none", args |-> <<>>, requests |-> <<>>,
           outcome |-> [kind |-> "none", text |-> <<>>]]

\* the server process serving tool calls, the client constructed
Init ==
    /\ token = "xoxb-token"
    /\ headers = ClientHeaders("xoxb-token")
    /\ jsonLib \in JsonLibs
    /\ tool = "none"
    /\ args = <<>>
    /\ ops = <<>>
    /\ requests = <<>>
    /\ result = NoResult
    /\ outcome = [kind |-> "none", text |-> <<>>]
    /\ view = <<>>
    /\ slack_token = "xoxb-token"
    /\ pc = "serving"
    /\ exit_status = None
    /\ served = <<>>
    /\ wire = <<>>
    /\ last = NoCall

----------------------------------------------------------------------------
(* One action per tool procedure: the whole invocation.  What an          *)
(* invocation did is kept until the caller has taken its outcome; nothing *)
(* of it outlives the call.                                               *)

Busy == tool # "none"
Idle == pc = "serving" /\ ~Busy /\ Len(served) < MaxCalls

\* what the remote side holds of a request: no answer, it gave that itself
WireEntry(req) ==
    [host |-> req.host, endpoint |-> req.endpoint, auth |-> req.auth,
     payload |-> req.payload]

\* every request issued is transmitted, an equal earlier one or not
DeliverOnce(w, reqs) ==
    w \o SelectSeq([i \in DOMAIN reqs |-> WireEntry(reqs[i])],
                   LAMBDA e : \A j \in DOMAIN w : w[j] # e)
Deliver(w, reqs) == w \o [i \in DOMAIN reqs |-> WireEntry(reqs[i])]

\* a client operation that set the Content-Type header for its own request
\* on self.headers would leave it changed for every later call
CompleteRetypingHeaders(name, a, inv) ==
    /\ tool' = name
    /\ args' = a
    /\ ops' = inv.ops
    /\ requests' = inv.requests
    /\ result' = inv.result
    /\ outcome' = inv.outcome
    /\ view' = inv.view
    /\ served' = Append(served, name)
    /\ wire' = Deliver(wire, inv.requests)
    /\ headers' = IF inv.requests = <<>> THEN headers
                  ELSE [headers EXCEPT !.ContentType = "multipart/form-data"]
    /\ UNCHANGED <<token, jsonLib, slack_token, pc, exit_status, last>>

Complete(name, a, inv) ==
    /\ tool' = name
    /\ args' = a
    /\ ops' = inv.ops
    /\ requests' = inv.requests
    /\ result' = inv.result
    /\ outcome' = inv.outcome
    /\ view' = inv.view
    /\ served' = Append(served, name)
    /\ wire' = Deliver(wire, inv.requests)
    /\ UNCHANGED <<token, headers, jsonLib, slack_token, pc, exit_status, last>>

SendSlackMessage ==
    /\ Idle
    /\ \E channel \in ChannelArgs, text \in TextArgs, resp \in PostMessageResps :
        Complete("send_slack_message", [channel |-> channel, text |-> text],
                 send_slack_message(channel, text, resp))

GetSlackChannels ==
    /\ Idle
    /\ \E resp \in ListResps :
        Complete("get_slack_channels", <<>>, get_slack_channels(resp))

GetSlackChannelHistory ==
    /\ Idle
    /\ \E limit \in HistoryLimitArgs, resp \in HistoryResps :
        Complete("get_slack_channel_history", [channel_id |-> "C1", limit |-> limit],
                 get_slack_channel_history("C1", limit, resp))

SendSlackDirectMessage ==
    /\ Idle
    /\ \E text \in TextArgs, respOpen \in OpenResps, respSend \in PostMessageResps,
       respInfo \in InfoResps :
        Complete("send_slack_direct_message", [user_id |-> "U1", text |-> text],
                 send_slack_direct_message("U1", text, respOpen, respSend, respInfo))

GetSlackUsers ==
    /\ Idle
    /\ \E limit \in LimitArgs \cup {5000}, resp \in UsersResps :
        Complete("get_slack_users", [limit |-> limit], get_slack_users(limit, resp))

SearchSlackMessages ==
    /\ Idle
    /\ \E count \in LimitArgs, resp \in SearchResps :
        Complete("search_slack_messages", [query |-> "in:#general hello", count |-> count],
                 search_slack_messages("in:#general hello", count, resp))

UploadSlackFile ==
    /\ Idle
    /\ \E parts \in ChannelParts, fs \in FileStates, tc \in TitleComments,
       env \in UploadEnvs :
        Complete("upload_slack_file",
                 [channels |-> parts, file_path |-> "/tmp/report.txt",
                  title |-> tc[1], initial_comment |-> tc[2], fs |-> fs],
                 upload_slack_file(parts, "/tmp/report.txt", tc[1], tc[2], fs, env))

AddSlackReaction ==
    /\ Idle
    /\ \E timestamp \in TsArgs, emoji \in {"thumbsup", ":thumbsup:"},
       resp \in ReactionResps :
        Complete("add_slack_reaction",
                 [channel |-> "C1", timestamp |-> timestamp, emoji |-> emoji],
                 add_slack_reaction("C1", timestamp, emoji, resp))

GetSlackThreadReplies ==
    /\ Idle
    /\ \E thread_ts \in TsArgs, resp \in RepliesResps :
        Complete("get_slack_thread_replies", [channel |-> "C1", thread_ts |-> thread_ts],
                 get_slack_thread_replies("C1", thread_ts, resp))

SendSlackThreadReply ==
    /\ Idle
    /\ \E channel \in ChannelArgs, thread_ts \in TsArgs, text \in TextArgs,
       resp \in PostMessageResps :
        Complete("send_slack_thread_reply",
                 [channel |-> channel, thread_ts |-> thread_ts, text |-> text],
                 send_slack_thread_reply(channel, thread_ts, text, resp))

TestSlackConnection ==
    /\ Idle
    /\ \E resp \in AuthResps :
        Complete("test_slack_connection", <<>>, test_slack_connection(resp))

\* SlackAPIClient.upload_file called on the client itself: channels is a
\* string or a list, and a SlackAPIError reaches the caller
ClientUploadFile ==
    /\ Idle
    /\ \E channels \in {[kind |-> "str", val |-> c] : c \in ChannelIdents}
                    \cup {[kind |-> "list", val |-> p] : p \in ChannelParts},
       fs \in FileStates, env \in UploadEnvs :
        LET r == upload_file(channels, "/tmp/report.txt", None, None, fs, env)
        IN  Complete("SlackAPIClient.upload_file",
                     [channels |-> channels, file_path |-> "/tmp/report.txt",
                      title |-> None, initial_comment |-> None, fs |-> fs],
                     Invocation(<<"upload_file">>, Tag("upload_file", r.reqs), r,
                                [kind |-> IF r.exc = "none" THEN "returned" ELSE "raised",
                                 text |-> r.error],
                                <<>>))

\* SlackAPIClient._make_request called on the client itself
ClientMakeRequest ==
    /\ Idle
    /\ \E method \in {"GET", "POST"}, resp \in MakeRequestResps :
        LET r == MakeRequest(resp)
        IN  Complete("SlackAPIClient._make_request",
                     [method |-> method, endpoint |-> "auth.test"],
                     Invocation(<<"_make_request">>,
                                Tag("_make_request",
                                    <<Request(method, "auth.test", <<>>, resp)>>), r,
                                [kind |-> IF r.exc = "none" THEN "returned" ELSE "raised",
                                 text |-> r.error],
                                <<>>))

\* the caller takes the outcome: the values of the call are dropped
Collect ==
    /\ Busy
    /\ tool' = "none"
    /\ args' = <<>>
    /\ ops' = <<>>
    /\ requests' = <<>>
    /\ result' = NoResult
    /\ outcome' = [kind |-> "none", text |-> <<>>]
    /\ view' = <<>>
    /\ served' = <<>>
    /\ wire' = <<>>
    /\ last' = NoCall
    /\ UNCHANGED <<token, headers, jsonLib, slack_token, pc, exit_status>>

\* the caller takes the outcome; the process goes on to the next call
Retain ==
    /\ Busy
    /\ pc = "serving"
    /\ last' = [tool |-> tool, args |-> args, requests |-> requests,
                outcome |-> outcome]
    /\ tool' = "none"
    /\ args' = <<>>
    /\ ops' = <<>>
    /\ requests' = <<>>
    /\ result' = NoResult
    /\ outcome' = [kind |-> "none", text |-> <<>>]
    /\ view' = <<>>
    /\ UNCHANGED <<token, headers, jsonLib, slack_token, pc, exit_status,
                   served, wire>>

Next ==
    \/ SendSlackMessage
    \/ GetSlackChannels
    \/ GetSlackChannelHistory
    \/ SendSlackDirectMessage
    \/ GetSlackUsers
    \/ SearchSlackMessages
    \/ UploadSlackFile
    \/ AddSlackReaction
    \/ GetSlackThreadReplies
    \/ SendSlackThreadReply
    \/ TestSlackConnection
    \/ ClientUploadFile
    \/ ClientMakeRequest
    \/ Collect

Spec == Init /\ [][Next]_vars

----------------------------------------------------------------------------
(* The server process from its start: the module is imported (the token   *)
(* is read and the client constructed), run_server probes the connection  *)
(* and enters mcp.run, which serves tool calls one after the other.       *)

\* what os.getenv("SLACK_BOT_TOKEN") may give
EnvTokens == {None, "", "xoxb-token"}

\* before slack_client exists
NoHeaders == [Authorization |-> <<>>, ContentType |-> None, UserAgent |-> None]

ServerInit ==
    /\ slack_token \in EnvTokens
    /\ pc = "import"
    /\ exit_status = None
    /\ token = None
    /\ headers = NoHeaders
    /\ jsonLib \in JsonLibs
    /\ tool = "none"
    /\ args = <<>>
    /\ ops = <<>>
    /\ requests = <<>>
    /\ result = NoResult
    /\ outcome = [kind |-> "none", text |-> <<>>]
    /\ view = <<>>
    /\ served = <<>>
    /\ wire = <<>>
    /\ last = NoCall

\* slack_mcp_server.py at import: the ValueError of a missing token is not
\* caught by anything, the interpreter ends with status 1
LoadCredential ==
    /\ pc = "import"
    /\ IF ~Truthy(slack_token)
       THEN /\ pc' = "exited"
            /\ exit_status' = ExitFailure
            /\ outcome' = [kind |-> "raised",
                           text |-> <<"SLACK_BOT_TOKEN is not set.">>]
            /\ UNCHANGED <<token, headers>>
       ELSE /\ pc' = "run_server"
            /\ token' = slack_token
            /\ headers' = ClientHeaders(slack_token)
            /\ UNCHANGED <<exit_status, outcome>>
    /\ UNCHANGED <<jsonLib, slack_token, tool, args, ops, requests, result, view,
                   served, wire, last>>

\* the except clause of run_server lets no failed probe reach mcp.run
ProbeFailed(r) == r.exc # "none"

\* run_server up to the call of mcp.run
RunServer ==
    /\ pc = "run_server"
    /\ \E resp \in AuthResps :
        LET r == test_connection(resp)
        IN  /\ tool' = "run_server"
            /\ args' = <<>>
            /\ ops' = <<"test_connection">>
            /\ requests' = Tag("test_connection", r.reqs)
            /\ result' = r
            /\ view' = <<>>
            /\ wire' = Deliver(wire, r.reqs)
            /\ IF ProbeFailed(r)
               THEN /\ pc' = "exited"
                    /\ exit_status' = ExitFailure
                    /\ outcome' = [kind |-> "exited",
                                   text |-> <<"Server start failed: ">> \o
                                            (IF r.exc = "SlackAPIError"
                                             THEN SlackAPIErrorStr(r.error)
                                             ELSE r.error)]
               ELSE /\ pc' = "serving"
                    /\ exit_status' = exit_status
                    /\ outcome' = [kind |-> "serving",
                                   text |-> <<"Slack API connection ok: ",
                                              Get(r.value.team, "Unknown")>>]
    /\ UNCHANGED <<token, headers, jsonLib, slack_token, served, last>>

ServerNext ==
    \/ LoadCredential
    \/ RunServer
    \/ SendSlackMessage
    \/ GetSlackChannels
    \/ TestSlackConnection
    \/ Retain

ServerSpec == ServerInit /\ [][ServerNext]_vars

----------------------------------------------------------------------------
(* Properties *)

ToolNames ==
    {"send_slack_message", "get_slack_channels", "get_slack_channel_history",
     "send_slack_direct_message", "get_slack_users", "search_slack_messages",
     "upload_slack_file", "add_slack_reaction", "get_slack_thread_replies",
     "send_slack_thread_reply", "test_slack_connection"}

\* the answer was a decoded body the service marked as rejected
RemoteError(answer) ==
    /\ answer.net = "ok"
    /\ answer.status = 200
    /\ answer.body = "json"
    /\ answer.ok = "false"

\* C1: every tool procedure ends by returning a string, whatever the client
\* calls met: success, a SlackAPIError of any kind, or any other exception
\* raised by the client or while its result is formatted.  No invocation
\* ends with an exception reaching the caller.
C1_ToolsAlwaysReturn ==
    tool \in ToolNames => outcome.kind = "returned" /\ outcome.text # <<>>

\* C1 witness: a history whose message has a timestamp float() rejects; the
\* sort raises ValueError and the tool still returns a string.
C1_Witness ==
    /\ tool = "get_slack_channel_history"
    /\ result.exc = "none"
    /\ \E i \in DOMAIN result.value : ~IsFloat(result.value[i].timestamp)
    /\ outcome.kind = "returned"
    /\ outcome.text[1] = "Unexpected error: "

\* the client operation a tool is built on
ClientOpOf(t) ==
    CASE t = "send_slack_message" -> "send_message"
      [] t = "get_slack_channels" -> "get_channels"
      [] t = "get_slack_channel_history" -> "get_channel_history"
      [] t = "send_slack_direct_message" -> "send_direct_message"
      [] t = "get_slack_users" -> "get_users"
      [] t = "search_slack_messages" -> "search_messages"
      [] t = "upload_slack_file" -> "upload_file"
      [] t = "add_slack_reaction" -> "add_reaction"
      [] t = "get_slack_thread_replies" -> "get_thread_replies"
      [] t = "send_slack_thread_reply" -> "send_message"
      [] t = "test_slack_connection" -> "test_connection"

\* C2 as claimed: a tool invocation that calls the client calls exactly one
\* client operation, send_slack_direct_message calls nothing after
\* send_direct_message, and every outbound request is that operation's.
C2_OneClientOperation ==
    tool \in ToolNames /\ ops # <<>> =>
        /\ ops = <<ClientOpOf(tool)>>
        /\ \A i \in DOMAIN requests : requests[i].op = ops[1]

\* C2 amended: every tool invocation calls exactly the one client operation
\* it is built on, with two exceptions: upload_slack_file calls none when
\* the file does not exist, and send_slack_direct_message, once
\* send_direct_message has succeeded, also calls get_user_info, which
\* issues one more request (users.info); after a failed send_direct_message
\* it calls nothing further.  Every outbound request of an invocation is
\* issued by one of the operations it called.
C2_Amended ==
    tool \in ToolNames =>
        /\ ops = CASE tool = "send_slack_direct_message" /\ result.exc = "none" ->
                        <<"send_direct_message", "get_user_info">>
                   [] tool = "upload_slack_file" /\ ~args.fs.exists -> <<>>
                   [] OTHER -> <<ClientOpOf(tool)>>
        /\ \A i \in DOMAIN requests : \E j \in DOMAIN ops : requests[i].op = ops[j]
        /\ Cardinality({i \in DOMAIN requests : requests[i].op = "get_user_info"})
             = IF tool = "send_slack_direct_message" /\ result.exc = "none"
               THEN 1 ELSE 0

\* C2 witness: a direct message was sent (two requests) and the user lookup
\* followed as a second client operation with a third request.
C2_Witness ==
    /\ tool = "send_slack_direct_message"
    /\ result.exc = "none"
    /\ ops = <<"send_direct_message", "get_user_info">>
    /\ Len(requests) = 3
    /\ requests[3].endpoint = "users.info"

\* max(1, min(value, cap)) written out
InRange(value, cap) == IF value < 1 THEN 1 ELSE IF value > cap THEN cap ELSE value

\* C3: the limit of get_slack_channel_history (cap 100) and get_slack_users
\* (cap 1000) and the count of search_slack_messages (cap 100) reach the
\* outbound query as max(1, min(value, cap)), so always within 1..cap, also
\* for values <= 0 and values above the cap.
C3_LimitClamped ==
    /\ tool = "get_slack_channel_history" =>
         /\ Len(requests) = 1
         /\ requests[1].payload.limit = InRange(args.limit, HistoryCap)
         /\ requests[1].payload.limit \in 1..HistoryCap
    /\ tool = "get_slack_users" =>
         /\ Len(requests) = 1
         /\ requests[1].payload.limit = InRange(args.limit, UsersCap)
         /\ requests[1].payload.limit \in 1..UsersCap
    /\ tool = "search_slack_messages" =>
         /\ Len(requests) = 1
         /\ requests[1].payload.count = InRange(args.count, SearchCap)
         /\ requests[1].payload.count \in 1..SearchCap

\* C3 witness: a history request for a limit <= 0 went out with limit 1.
C3_Witness ==
    /\ tool = "get_slack_channel_history"
    /\ args.limit <= 0
    /\ requests[1].endpoint = "conversations.history"
    /\ requests[1].payload.limit = 1

\* the subtypes that mark an entry as bot, join or leave noise
NoiseSubtypes == {"bot_message", "channel_join", "channel_leave"}

\* the place in the answer of the entry a message was built from
PlaceOf(msg, entries) == CHOOSE i \in DOMAIN entries : entries[i].text = msg.text

HistoryRendered ==
    /\ tool = "get_slack_channel_history"
    /\ result.exc = "none"
    /\ result.value # <<>>
    /\ outcome.text[1] = "Channel "

\* C5: when get_slack_channel_history succeeds, the messages it renders are
\* the client's messages in ascending order of the timestamp read as a
\* number, whatever the order of the answer, and messages with equal
\* timestamps keep the order they had in the answer.
C5_HistoryAscending ==
    HistoryRendered =>
        LET entries == requests[1].answer.data.messages
        IN  /\ Len(view) = Len(result.value)
            /\ \A j \in DOMAIN result.value : \E k \in DOMAIN view : view[k] = result.value[j]
            /\ \A j, k \in DOMAIN view :
                 j < k =>
                    \/ FloatValue(view[j].timestamp) < FloatValue(view[k].timestamp)
                    \/ /\ FloatValue(view[j].timestamp) = FloatValue(view[k].timestamp)
                       /\ PlaceOf(view[j], entries) < PlaceOf(view[k], entries)

\* C5 witness: the answer came newest first with two timestamps equal as
\* numbers and unequal as strings; the rendered list is reordered and the
\* two equal ones kept their order.
C5_Witness ==
    /\ HistoryRendered
    /\ Len(view) = 3
    /\ view # result.value
    /\ view[2].timestamp = "10.50"
    /\ view[3].timestamp = "10.5"
    /\ result.value[1] = view[2]
    /\ result.value[2] = view[3]

\* C6: for a non-empty conversations.replies answer get_thread_replies
\* returns every message of the answer in order, the parent first; the
\* replies view of get_slack_thread_replies is that sequence without its
\* first element (empty for one message) and the count it reports is the
\* length of the client result minus one.
C6_RepliesView ==
    /\ tool = "get_slack_thread_replies"
    /\ result.exc = "none"
    /\ requests[1].answer.data.messages # <<>>
    => LET entries == requests[1].answer.data.messages
       IN  /\ Len(result.value) = Len(entries)
           /\ \A i \in DOMAIN entries :
                /\ result.value[i].text = entries[i].text
                /\ result.value[i].timestamp = entries[i].ts
           /\ Len(view) = Len(result.value) - 1
           /\ \A i \in DOMAIN view : view[i] = result.value[i + 1]
           /\ outcome.text[1] = "Thread replies: "
           /\ outcome.text[2] = ToString(Len(result.value) - 1)

\* C6 witness: a thread of a parent and two replies rendered as two replies.
C6_Witness ==
    /\ tool = "get_slack_thread_replies"
    /\ result.exc = "none"
    /\ Len(result.value) = 3
    /\ view = Tail(result.value)
    /\ outcome.text[2] = "2"

\* the scope a tool's remediation guidance names
RequiredScope(t) ==
    IF t = "get_slack_channels" THEN "'channels:read'" ELSE "'channels:history'"

\* C7: when the service answers conversations.list or conversations.history
\* with ok=false and the error tag missing_scope, the failure string of
\* get_slack_channels / get_slack_channel_history carries the guidance
\* naming the required scope; for any other error tag the failure string
\* carries the raw tag and not the guidance, so the two differ.
C7_MissingScopeGuidance ==
    /\ tool \in {"get_slack_channels", "get_slack_channel_history"}
    /\ RemoteError(requests[1].answer)
    /\ requests[1].answer.error # "absent"
    => /\ outcome.kind = "returned"
       /\ outcome.text[1] \in {"Channel list failed: ", "Channel history failed: "}
       /\ IF requests[1].answer.error = "missing_scope"
          THEN /\ Contains(outcome.text, RequiredScope(tool))
               /\ ~Contains(outcome.text, "missing_scope")
          ELSE /\ Contains(outcome.text, requests[1].answer.error)
               /\ ~Contains(outcome.text, RequiredScope(tool))

\* C7 witness: conversations.history answered missing_scope and the tool
\* returned the guidance naming channels:history.
C7_Witness ==
    /\ tool = "get_slack_channel_history"
    /\ RemoteError(requests[1].answer)
    /\ requests[1].answer.error = "missing_scope"
    /\ outcome.text[1] = "Channel history failed: "
    /\ Contains(outcome.text, "'channels:history'")

UploadCalls == {"upload_slack_file", "SlackAPIClient.upload_file"}

\* C8: when the local file does not exist, upload_slack_file and
\* SlackAPIClient.upload_file issue no outbound request at all and end
\* with a failure that names the path: the tool returns a failure string,
\* the client raises SlackAPIError.
C8_MissingFileNoRequest ==
    tool \in UploadCalls /\ ~args.fs.exists =>
        /\ requests = <<>>
        /\ Contains(outcome.text, args.file_path)
        /\ outcome.text[1] = "File not found: "
        /\ tool = "upload_slack_file" => outcome.kind = "returned"
        /\ tool = "SlackAPIClient.upload_file" =>
             outcome.kind = "raised" /\ result.exc = "SlackAPIError"

\* C8 witness: the client was given a channel name, which it would look up
\* first, and a path that does not exist; no request went out.
C8_Witness ==
    /\ tool = "SlackAPIClient.upload_file"
    /\ args.channels = [kind |-> "str", val |-> "general"]
    /\ ~args.fs.exists
    /\ requests = <<>>
    /\ outcome.kind = "raised"

\* the places of the three steps among the requests of an upload
StepA == {i \in DOMAIN requests : requests[i].endpoint = "files.getUploadURLExternal"}
StepB == {i \in DOMAIN requests : requests[i].host # "https://slack.com/api"}
StepC == {i \in DOMAIN requests : requests[i].endpoint = "files.completeUploadExternal"}

\* the service answered a request with ok=true
Succeeded(i) ==
    /\ requests[i].answer.net = "ok"
    /\ requests[i].answer.status = 200
    /\ requests[i].answer.body = "json"
    /\ requests[i].answer.ok = "true"

\* what C9 says of the steps besides the status that lets (c) follow (b)
UploadStepsInOrder ==
    /\ Cardinality(StepA) <= 1 /\ Cardinality(StepB) <= 1 /\ Cardinality(StepC) <= 1
    /\ \A a \in StepA, b \in StepB : a < b
    /\ \A b \in StepB, c \in StepC : b < c
    /\ \A b \in StepB : \E a \in StepA :
          Succeeded(a) /\ requests[b].host = requests[a].answer.data.upload_url
    /\ \A c \in StepC : StepB # {}
    /\ \A i \in DOMAIN requests :
          i < Len(requests) /\ (i \in StepA \/ i \in StepC) => Succeeded(i)
    /\ result.exc \in {"none", "SlackAPIError"}
    /\ result.exc = "none" <=> \E c \in StepC : Succeeded(c)

\* C9 as claimed: upload_file runs (a) files.getUploadURLExternal, (b) the
\* byte transfer, (c) files.completeUploadExternal in this order, (b) only
\* after (a) succeeded, (c) exactly when (b) answered with any 2xx status,
\* and a failing step ends the operation as one failure with no later step.
C9_Any2xxAccepted ==
    tool \in UploadCalls /\ args.fs.exists =>
        /\ UploadStepsInOrder
        /\ \A b \in StepB :
             StepC # {} <=> /\ requests[b].answer.net = "ok"
                            /\ requests[b].answer.status \in 200..299

\* C9 amended: upload_file runs (a) files.getUploadURLExternal, (b) the
\* byte transfer, (c) files.completeUploadExternal in this order, (b) only
\* after (a) succeeded, (c) exactly when (b) answered with status 200 (any
\* other status, the other 2xx ones included, is a failure), and a failing
\* step ends the operation as one SlackAPIError with no later step.
C9_Amended ==
    tool \in UploadCalls /\ args.fs.exists =>
        /\ UploadStepsInOrder
        /\ \A b \in StepB :
             StepC # {} <=> /\ requests[b].answer.net = "ok"
                            /\ requests[b].answer.status = 200

\* C9 witness: the transfer was answered 201 and the upload ended there as
\* a failure, the finalize step never issued.
C9_Witness ==
    /\ tool = "SlackAPIClient.upload_file"
    /\ \E b \in StepB : requests[b].answer.status = 201 /\ b = Len(requests)
    /\ StepA # {}
    /\ StepC = {}
    /\ result.exc = "SlackAPIError"

\* C10 as claimed: given several channel identifiers in the tool's
\* comma-separated channels argument, the finalize step associates the
\* file with every one of them; and a bare channel name given as the
\* destination is resolved through conversations.list before the upload
\* destination is requested.
C10_EveryChannelFinalized ==
    /\ tool = "upload_slack_file" =>
          \A c \in StepC, i \in DOMAIN args.channels :
              requests[c].payload.channel_id = Strip(args.channels[i])
    /\ /\ tool = "SlackAPIClient.upload_file"
       /\ args.fs.exists
       /\ args.channels.kind = "str"
       /\ FirstChar(args.channels.val) # "C"
       => /\ requests # <<>>
          /\ requests[1].endpoint = "conversations.list"
          /\ \A i \in StepA : i > 1

\* what send_slack_direct_message returns first when it reports a failure
DmFailurePrefixes == {"Direct message failed: ", "Unexpected error: "}

\* C11: send_direct_message first issues conversations.open for the user
\* id and only after that succeeded issues chat.postMessage, addressed to
\* the channel id the first step returned.  When the first step fails,
\* also by a success answer without a channel id, chat.postMessage is
\* never issued; a failure of either step ends the operation with one
\* failure and send_slack_direct_message returns a failure string, never a
\* success string.
C11_DirectMessageTwoSteps ==
    tool = "send_slack_direct_message" =>
        LET posts == {i \in DOMAIN requests : requests[i].endpoint = "chat.postMessage"}
            opened == /\ Succeeded(1)
                      /\ requests[1].answer.data.channel_id # "absent"
        IN  /\ requests # <<>>
            /\ requests[1].endpoint = "conversations.open"
            /\ requests[1].payload.users = args.user_id
            /\ \A i \in DOMAIN requests : i > 1 => requests[i].endpoint # "conversations.open"
            /\ posts = IF opened THEN {2} ELSE {}
            /\ \A i \in posts :
                 /\ requests[i].payload.channel = requests[1].answer.data.channel_id
                 /\ requests[i].payload.text = args.text
            /\ result.exc = "none" <=> opened /\ Succeeded(2)
            /\ outcome.kind = "returned"
            /\ IF opened /\ Succeeded(2)
               THEN outcome.text[1] = "Direct message sent. recipient: "
               ELSE /\ outcome.text[1] \in DmFailurePrefixes
                    /\ ~Contains(outcome.text, "Direct message sent. recipient: ")
                    /\ Len(requests) = IF opened THEN 2 ELSE 1

\* C11 witness: conversations.open answered ok without a channel id; no
\* chat.postMessage followed and the tool returned a failure string.
C11_Witness ==
    /\ tool = "send_slack_direct_message"
    /\ Len(requests) = 1
    /\ Succeeded(1)
    /\ requests[1].answer.data.channel_id = "absent"
    /\ result.exc = "KeyError"
    /\ outcome.text[1] = "Unexpected error: "

\* the answer had a 2xx status and a body that decodes to an object
Decoded2xx(answer) ==
    /\ answer.net = "ok"
    /\ answer.status \in 200..299
    /\ answer.body = "json"

\* C14 as claimed: _make_request reports a body that is not decodable as
\* JSON as a failure of the decode-error kind ('JSON decode error'), a
\* transport failure as the network-error kind, and a decoded body that is
\* not ok as a remote error, so that the caller can tell the three apart.
C14_DecodeErrorKind ==
    tool = "SlackAPIClient._make_request" =>
        LET a == requests[1].answer
        IN  /\ a.net # "ok" =>
                 result.exc = "SlackAPIError" /\ result.error[1] = "Network error: "
            /\ a.net = "ok" /\ a.status \in 200..299 /\ a.body = "garbage" =>
                 result.exc = "SlackAPIError" /\ result.error[1] = "JSON decode error: "
            /\ Decoded2xx(a) /\ a.ok # "true" =>
                 /\ result.exc = "SlackAPIError"
                 /\ result.error[1] \notin {"Network error: ", "JSON decode error: "}

\* C15: for an answer with a 2xx status and a decodable body _make_request
\* returns the decoded body unchanged exactly when its ok flag is true;
\* when ok is false or absent it raises a SlackAPIError whose error is the
\* service's error tag ('Unknown error' without one) and whose response is
\* the whole decoded payload, and neither except clause of _make_request
\* turns it into a network or decode error.
C15_RemoteErrorCarriesTag ==
    tool = "SlackAPIClient._make_request" /\ Decoded2xx(requests[1].answer) =>
        LET a == requests[1].answer
        IN  IF a.ok = "true"
            THEN /\ result.exc = "none"
                 /\ result.value = a.data
                 /\ outcome.kind = "returned"
            ELSE /\ result.exc = "SlackAPIError"
                 /\ result.error = <<IF a.error = "absent" THEN "Unknown error"
                                     ELSE a.error>>
                 /\ result.response = a
                 /\ outcome.kind = "raised"

\* C15 witness: a 200 answer with ok=false and the tag invalid_auth was
\* raised as a SlackAPIError carrying the tag and the payload.
C15_Witness ==
    /\ tool = "SlackAPIClient._make_request"
    /\ Decoded2xx(requests[1].answer)
    /\ requests[1].answer.ok = "false"
    /\ result.error = <<"invalid_auth">>
    /\ result.response = requests[1].answer

\* a request of an invocation was answered as its caller needs to go on
Answered(i) ==
    /\ requests[i].answer.net = "ok"
    /\ ~(requests[i].answer.status \in 400..599)
    /\ requests[i].host = "https://slack.com/api" =>
         requests[i].answer.body = "json" /\ requests[i].answer.ok = "true"

\* what C16 says besides the statuses reported as a network error
OneRequestNoRetry ==
    /\ tool = "SlackAPIClient._make_request" =>
         /\ Len(requests) = 1
         /\ outcome.kind \in {"returned", "raised"}
         /\ outcome.kind = "raised" => result.exc # "none"
         /\ requests[1].answer.net # "ok" =>
              result.exc = "SlackAPIError" /\ result.error[1] = "Network error: "
    /\ tool # "none" =>
         /\ \A i \in DOMAIN requests : i < Len(requests) => Answered(i)
         /\ \A i, j \in DOMAIN requests :
              i # j => <<requests[i].host, requests[i].endpoint>>
                         # <<requests[j].host, requests[j].endpoint>>

\* the failure is of the network-error kind and shows no service error tag
NetworkErrorKind(answer) ==
    /\ result.exc = "SlackAPIError"
    /\ result.error[1] = "Network error: "
    /\ answer.error # "absent" => ~Contains(result.error, answer.error)

C18_LookupNeverFailsTheSend ==
    tool = "send_slack_direct_message" =>
        LET lookups == {i \in DOMAIN requests : requests[i].endpoint = "users.info"}
        IN  IF result.exc = "none"
            THEN /\ lookups = {3}
                 /\ outcome.kind = "returned"
                 /\ outcome.text[1] = "Direct message sent. recipient: "
                 /\ IF Succeeded(3) /\ requests[3].answer.data.has_user
                    THEN /\ outcome.text[2] = requests[3].answer.data.user.real_name
                         /\ outcome.text[4] = requests[3].answer.data.user.name
                    ELSE outcome.text[2] = args.user_id
                 /\ Contains(outcome.text, args.text)
            ELSE /\ lookups = {}
                 /\ ~Contains(ops, "get_user_info")

\* C18 witness: the message went out, users.info answered ok without a
\* user (KeyError inside get_user_info), and the success string names the
\* raw user id.
C18_Witness ==
    /\ tool = "send_slack_direct_message"
    /\ result.exc = "none"
    /\ Len(requests) = 3
    /\ Succeeded(3)
    /\ ~requests[3].answer.data.has_user
    /\ outcome.text[1] = "Direct message sent. recipient: "
    /\ outcome.text[2] = "U1"

\* the environment holds a token
CredentialConfigured == slack_token \notin {None, ""}

\* C13: at process start run_server probes the connection (auth.test)
\* before the serve loop is entered; when the probe fails, or the
\* credential is not configured, the serve loop is never entered and the
\* process ends with a non-zero exit status.
C13_ProbeBeforeServing ==
    /\ pc = "serving" =>
         /\ CredentialConfigured
         /\ wire # <<>>
         /\ wire[1].endpoint = "auth.test"
         /\ wire[1].auth = <<"Bearer ", slack_token>>
    /\ tool = "run_server" =>
         /\ requests[1].endpoint = "auth.test"
         /\ pc = "serving" <=> Succeeded(1)
         /\ pc \in {"serving", "exited"}
    /\ ~CredentialConfigured => pc \in {"import", "exited"} /\ wire = <<>>
    /\ pc = "exited" =>
         /\ exit_status # 0
         /\ served = <<>>
         /\ tool = "none" \/ (tool = "run_server" /\ ~Succeeded(1))
    /\ served # <<>> \/ (Busy /\ tool # "run_server") => pc = "serving"

\* C13 witness: the probe was answered invalid_auth; the process exited
\* with status 1 and served nothing.
C13_Witness ==
    /\ pc = "exited"
    /\ exit_status = 1
    /\ tool = "run_server"
    /\ requests[1].answer.error = "invalid_auth"
    /\ result.exc = "SlackAPIError"
    /\ served = <<>>

\* how often an element occurs in a sequence
Count(seq, Test(_)) == Cardinality({i \in DOMAIN seq : Test(seq[i])})

\* C12: for every channel and text one invocation of send_slack_message
\* issues exactly one outbound call, chat.postMessage, and when that call
\* succeeds the returned string contains the text as given; n invocations
\* issue n outbound calls, equal ones included: nothing is deduplicated.
C12_EverySendIsSent ==
    /\ tool = "send_slack_message" =>
         /\ Len(requests) = 1
         /\ requests[1].endpoint = "chat.postMessage"
         /\ requests[1].payload.text = args.text
         /\ Succeeded(1) =>
              /\ outcome.kind = "returned"
              /\ outcome.text[1] = "Message sent. channel: "
              /\ Contains(outcome.text, args.text)
    /\ Count(wire, LAMBDA e : e.endpoint = "chat.postMessage")
         = Count(served, LAMBDA name : name = "send_slack_message")

\* C12 witness: send_slack_message was invoked twice with the same channel
\* and text; the remote side received two equal chat.postMessage calls.
C12_Witness ==
    /\ served = <<"send_slack_message", "send_slack_message">>
    /\ tool = "send_slack_message"
    /\ last.tool = "send_slack_message"
    /\ last.args = args
    /\ Len(wire) = 3
    /\ wire[2].endpoint = "chat.postMessage"
    /\ wire[3] = wire[2]

\* two answers of the remote side are the same
SameAnswer(a, b) ==
    /\ a.net = b.net
    /\ a.status = b.status
    /\ a.body = b.body
    /\ a.ok = b.ok
    /\ a.error = b.error
    /\ a.data = b.data

\* the present invocation was given what the one before it was given
SameInputsAsLast ==
    /\ Busy
    /\ last.tool = tool
    /\ last.args = args
    /\ Len(last.requests) = Len(requests)
    /\ \A i \in DOMAIN requests :
         SameAnswer(last.requests[i].answer, requests[i].answer)

====
